---- MODULE Spec2Model ----
(***************************************************************************)
(* The Claude monitor daemon (src/skills/claude-monitor/main.py): the      *)
(* scheduler loop of main(), the token refresh of refresh_token(), the     *)
(* usage check and the state store, as a state machine.                    *)
(*                                                                         *)
(* Time is the wall clock in milliseconds since the Unix epoch.  Runs are  *)
(* placed in the first weeks of the epoch so that every millisecond stamp  *)
(* fits TLC's integers; nothing in the program depends on the absolute     *)
(* date except the weekday, which is kept (1970-01-05 is a Monday).        *)
(* A UTC date (the "%Y-%m-%d" string of strftime) is its day number.       *)
(*                                                                         *)
(* The poll loop of the Android SMS bridge                                 *)
(* (src/bridge/android-sms/server.py), a program of its own, is the last   *)
(* section.                                                                *)
(***************************************************************************)
EXTENDS Integers, Sequences, FiniteSets, TLC

VARIABLES
    USAGE_WARN_PERCENT,         \* main.py:38, read from the environment at import
    DAILY_OUTPUT_TOKEN_BUDGET,  \* main.py:41
    clock,        \* the wall clock, ms since the epoch (time.time(), datetime.now)
    pc,           \* where main() stands
    ticks,        \* iterations of the while loop begun so far
    cred_path,    \* main.py:310, "path" or "None"
    credFile,     \* content of the credentials file
    stateFile,    \* content of STATE_FILE
    state,        \* the state dict of main()
    now_utc,      \* main.py:325, the tick's snapshot of the clock
    creds,        \* main.py:335, the record read in this tick
    data,         \* main.py:197, the response the new record is built from
    new_creds,    \* main.py:207, the record refresh_token() is about to write
    success,      \* main.py:337, "none" until refresh_token() has returned
    daily,        \* main.py:358, the daily snapshot of this tick
    sent,         \* messages handed to tg_send(): at startup and in this tick
    warned_dates, \* the usage warnings sent so far, in order: the date of the
                  \* tick that sent each, the date of the clock when sent, and
                  \* whether the run had loaded the latch on for the tick's date
    observed,     \* what a concurrent reader of the credentials file last saw
    stats_cache,  \* main.py:355, the usage cache this tick found
    weekly,       \* main.py:359, the weekly snapshot of this tick
    loaded,       \* main.py:321, what load_state() found and returned in this run
    call,         \* the arguments and the result of a function called on its own
    ext_written,  \* the access token of the record another process wrote since
                  \* the daemon last read the file, "" when it wrote none
    last_seen_ts, \* server.py:24, the cursor of poll_incoming()
    inbox,        \* the messages in the inbox of the device
    webhook       \* the requests poll_incoming() made to WEBHOOK_URL, in order

vars == <<USAGE_WARN_PERCENT, DAILY_OUTPUT_TOKEN_BUDGET, clock, pc, ticks,
          cred_path, credFile, stateFile, state, now_utc, creds, data,
          new_creds, success, daily, sent, warned_dates, observed,
          stats_cache, weekly, loaded, call, ext_written, last_seen_ts,
          inbox, webhook>>

config == <<USAGE_WARN_PERCENT, DAILY_OUTPUT_TOKEN_BUDGET, cred_path>>

\* The state of the SMS bridge (src/bridge/android-sms/server.py)
bridge == <<last_seen_ts, inbox, webhook>>

-----------------------------------------------------------------------------
(* Configuration defaults and literals of main.py *)

TOKEN_REFRESH_BUFFER_SECS == 3600
CHECK_INTERVAL_SECS == 120
DEFAULT_WARN_PERCENT == 85
DEFAULT_DAILY_BUDGET == 45000
DEFAULT_EXPIRES_IN == 28800
REFRESH_TIMEOUT_SECS == 30
MAX_ERRORS == 10

(* Bounds of the model *)
MaxTicks == 3

DAY_MS == 24 * 3600 * 1000
None == 0 - 1

DayOf(ms) == ms \div DAY_MS

Min(a, b) == IF a <= b THEN a ELSE b

\* The first tick of a run starts shortly before a UTC midnight (a Monday's).
StartClock == 5 * DAY_MS - CHECK_INTERVAL_SECS * 1000 - 15000

\* An expiresAt that datetime.fromtimestamp() rejects (year out of range);
\* the largest stamp of the model stands for it.
FarFuture == 2147483646 + 1

-----------------------------------------------------------------------------
(* The credentials file *)

\* Content of the file: a JSON object with a claudeAiOauth record ("rec"), one
\* whose expiresAt is not a number ("malformed"), a JSON object without the
\* key ("null"), no file ("absent"), or what a write in progress leaves: the
\* file truncated by open() ("empty") or cut short by a failed write
\* ("partial").
CredContent(kind, access, refresh, expires) ==
    [kind |-> kind, accessToken |-> access, refreshToken |-> refresh,
     expiresAt |-> expires, scopes |-> "user:inference",
     subscriptionType |-> "max", rateLimitTier |-> "default"]

NoCred(kind) ==
    [kind |-> kind, accessToken |-> "", refreshToken |-> "", expiresAt |-> 0,
     scopes |-> "", subscriptionType |-> "", rateLimitTier |-> ""]

IsRecord(content) == content.kind \in {"rec", "malformed"}

\* Path.exists()
Exists(content) == content.kind # "absent"

\* read_credentials(): the claudeAiOauth record, or None when the file does
\* not parse or has no such key.
read_credentials(content) ==
    IF IsRecord(content) THEN content ELSE NoCred("None")

\* The truth value of what read_credentials() returned.
Truthy(c) == c.kind # "None"

\* The expiry is scaled down twice, and so always lies in the past
token_expires_soon_scaledTwice(c, t) ==
    (c.expiresAt \div 1000) - t < TOKEN_REFRESH_BUFFER_SECS * 1000

\* The comparison made on whole seconds
ExpiresWithin_wholeSeconds(e, t, b) == (e \div 1000) - (t \div 1000) < b

\* main.py:169-170: expires_at_ms / 1000.0 - time.time() < b, for an expiry
\* e and a clock t both in milliseconds and a buffer b in seconds
ExpiresWithin(e, t, b) == e - t < b * 1000

\* token_expires_soon(), main.py:163-170, at the clock t
token_expires_soon(c, t) ==
    ExpiresWithin(c.expiresAt, t, TOKEN_REFRESH_BUFFER_SECS)

\* No call of the predicate on its own
NoCall == [e |-> 0, now |-> 0, b |-> 0, result |-> "none"]

-----------------------------------------------------------------------------
(* refresh_token() *)

\* What requests.post() gives back: it raises (at its timeout), or returns a
\* response.  refresh_token "" and access_token "" stand for a missing key
\* (data.get() gives None, which the code tests the same way as ""); elapsed
\* is the time the call took, in ms.
Response(kind, status, access, refresh, ekind, expires, elapsed) ==
    [kind |-> kind, status |-> status, access_token |-> access,
     refresh_token |-> refresh, expires_in_kind |-> ekind,
     expires_in |-> expires, elapsed |-> elapsed]

Responses ==
    { Response("exception", 0, "", "", "absent", 0, REFRESH_TIMEOUT_SECS * 1000),
      Response("http", 401, "", "", "absent", 0, 0),
      Response("http", 200, "", "rSrv", "int", DEFAULT_EXPIRES_IN, 0),
      Response("http", 200, "aSrv", "rSrv", "null", 0, 0),
      Response("http", 200, "aSrv", "rSrv", "int", DEFAULT_EXPIRES_IN, 0),
      Response("http", 200, "aSrv", "", "absent", 0, 2000),
      Response("http", 200, "aSrv", "", "int", 600, 0),
      Response("http", 200, "aSrv", "rSrv", "huge", 0, 0) }

NoData == Response("none", 0, "", "", "absent", 0, 0)

\* main.py:175-178
HasRefreshToken(c) == c.refreshToken # ""

\* main.py:200, data.get("expires_in", 28800)
expires_in(resp) ==
    IF resp.expires_in_kind = "absent" THEN DEFAULT_EXPIRES_IN
    ELSE resp.expires_in

\* main.py:183-204 and the arithmetic of line 211: the response is one the
\* code builds a record from.  A null expires_in raises TypeError in
\* time.time() + expires_in, before anything is written.
ResponseUsable(resp) ==
    /\ resp.kind = "http"
    /\ resp.status = 200
    /\ resp.access_token # ""
    /\ resp.expires_in_kind # "null"

\* A record that takes the refresh token from the response alone
NewRefreshToken_responseOnly(new_refresh, refresh_tok) == new_refresh

\* main.py:210, new_refresh or refresh_tok
NewRefreshToken(new_refresh, refresh_tok) ==
    IF new_refresh # "" THEN new_refresh ELSE refresh_tok

\* A stamp that adds the lifetime in seconds to the clock in milliseconds
NewExpiresAt_secondsAdded(t, resp) ==
    IF resp.expires_in_kind = "huge" THEN FarFuture
    ELSE t + expires_in(resp)

\* main.py:211, int((time.time() + expires_in) * 1000), the clock t in ms
NewExpiresAt(t, resp) ==
    IF resp.expires_in_kind = "huge" THEN FarFuture
    ELSE t + expires_in(resp) * 1000

\* main.py:207-216
BuildNewCreds(c, resp, t) ==
    [kind |-> "rec",
     accessToken |-> resp.access_token,
     refreshToken |-> NewRefreshToken(resp.refresh_token, c.refreshToken),
     expiresAt |-> NewExpiresAt(t, resp),
     scopes |-> c.scopes,
     subscriptionType |-> c.subscriptionType,
     rateLimitTier |-> c.rateLimitTier]

\* main.py:220-222, datetime.fromtimestamp() raises on a stamp out of range
FromTimestampRaises(rec) == rec.expiresAt = FarFuture

-----------------------------------------------------------------------------
(* The daemon state and its store *)

\* load_state()'s default, main.py:61-69
DefaultState ==
    [last_refresh_utc |-> None, refresh_count |-> 0, last_warn_utc |-> None,
     daily_tokens_warned |-> FALSE, daily_tokens_warned_date |-> None,
     total_refreshes |-> 0, errors |-> << >>]

StateContent(kind, st) == [kind |-> kind, data |-> st]

\* load_state(), main.py:55-69: the parsed file, or the default when the file
\* is absent or does not parse
load_state(file) ==
    IF file.kind = "json" THEN file.data ELSE DefaultState

\* The error of json.loads() on a corrupt file escapes load_state()
LoadRaises_corrupt(file) == file.kind = "corrupt"

\* main.py:57-62: what read_text() and json.loads() raise is caught
LoadRaises(file) == FALSE

\* Where a run got its state from at its start (the file or the default),
\* and the latch of the state it got
Loaded(file) ==
    [from |-> IF file.kind = "json" THEN "file" ELSE "default",
     daily_tokens_warned |-> load_state(file).daily_tokens_warned,
     daily_tokens_warned_date |-> load_state(file).daily_tokens_warned_date]
NotLoaded ==
    [from |-> "none", daily_tokens_warned |-> FALSE,
     daily_tokens_warned_date |-> None]

\* A rollover made by every tick
Rollover_everyTick(st, today_str) ==
    [st EXCEPT !.daily_tokens_warned = FALSE,
               !.daily_tokens_warned_date = today_str]

\* A rollover that moves the date and keeps the latch
Rollover_latchKept(st, today_str) ==
    [st EXCEPT !.daily_tokens_warned_date = today_str]

\* main.py:329-331
Rollover(st, today_str) ==
    IF st.daily_tokens_warned_date # today_str
    THEN [st EXCEPT !.daily_tokens_warned = FALSE,
                    !.daily_tokens_warned_date = today_str]
    ELSE st

\* main.py:339-341
RefreshSucceeded(st, now) ==
    [st EXCEPT !.last_refresh_utc = now,
               !.refresh_count = @ + 1,
               !.total_refreshes = @ + 1]

\* A log that is never cut
TruncateErrors_none(errs) == errs

\* main.py:346, errors[-10:]
TruncateErrors(errs) ==
    IF Len(errs) <= MAX_ERRORS THEN errs
    ELSE SubSeq(errs, Len(errs) - MAX_ERRORS + 1, Len(errs))

\* main.py:343-346; the message carries the tick's timestamp
RefreshFailed(st, now) ==
    [st EXCEPT !.errors = TruncateErrors(Append(@, now))]

\* A failure branch that alerts only for the first failure on the log
AlertOnFailure_deduplicated(st) == Len(st.errors) <= 1

\* main.py:347-351: whether the failure branch calls tg_send(), given the
\* state after the failure was logged: always
AlertOnFailure(st) == TRUE

\* An except clause that catches OSError only: anything else leaves main()
ExceptHandler_OSErrorOnly(exc) == IF exc = "OSError" THEN "sleep" ELSE "exited"

\* main.py:386-390: the except clause of the loop body catches the exception
\* (any Exception) and the loop goes on to sleep
ExceptHandler(exc) == "sleep"

-----------------------------------------------------------------------------
(* Usage monitoring *)

RECURSIVE SumSeq(_)
SumSeq(q) == IF q = << >> THEN 0 ELSE Head(q) + SumSeq(Tail(q))

\* The index of the first record of table whose date is d, 0 when none
\* (the for ... if ... break loops of get_today_usage)
RECURSIVE FirstWithDate(_, _, _)
FirstWithDate(table, d, i) ==
    IF i > Len(table) THEN 0
    ELSE IF table[i].date = d THEN i
    ELSE FirstWithDate(table, d, i + 1)

\* What find_stats_path() and the read of the file give: no file ("absent"),
\* a file that does not parse ("unreadable"), a cache ("json"), or a cache
\* whose token counts are not numbers ("badshape").
StatsContent(kind, activity, tokens) ==
    [kind |-> kind, dailyActivity |-> activity, dailyModelTokens |-> tokens]

\* No cache looked for yet in this tick
NoStats == StatsContent("none", << >>, << >>)

ZeroUsage == [checked |-> TRUE, output_tokens |-> 0, messages |-> 0, sessions |-> 0]
NoUsage == [checked |-> FALSE, output_tokens |-> 0, messages |-> 0, sessions |-> 0]

\* get_today_usage(), main.py:235-267, for a cache that was found
get_today_usage(stats, today) ==
    IF stats.kind # "json" THEN ZeroUsage
    ELSE LET a == FirstWithDate(stats.dailyActivity, today, 1)
             m == FirstWithDate(stats.dailyModelTokens, today, 1)
         IN [checked |-> TRUE,
             output_tokens |->
                 IF m = 0 THEN 0
                 ELSE SumSeq(stats.dailyModelTokens[m].tokensByModel),
             messages |->
                 IF a = 0 THEN 0 ELSE stats.dailyActivity[a].messageCount,
             sessions |->
                 IF a = 0 THEN 0 ELSE stats.dailyActivity[a].sessionCount]

\* datetime.weekday() of a date: Monday is 0 (day 0, 1970-01-01, is a Thursday)
Weekday(day) == (day + 3) % 7

\* The week starts the day after its Monday
get_weekly_usage_afterMonday(stats, today) ==
    IF stats.kind # "json" THEN ZeroUsage
    ELSE LET monday == today - Weekday(today)
             A == stats.dailyActivity
             T == stats.dailyModelTokens
         IN [checked |-> TRUE,
             output_tokens |->
                 SumSeq([i \in 1..Len(T) |->
                            IF T[i].date > monday
                            THEN SumSeq(T[i].tokensByModel) ELSE 0]),
             messages |->
                 SumSeq([i \in 1..Len(A) |->
                            IF A[i].date > monday THEN A[i].messageCount ELSE 0]),
             sessions |->
                 SumSeq([i \in 1..Len(A) |->
                            IF A[i].date > monday THEN A[i].sessionCount ELSE 0])]

\* get_weekly_usage(), main.py:270-297: the sums over every record whose date
\* string is not below the Monday of today's week; no upper limit, no break
get_weekly_usage(stats, today) ==
    IF stats.kind # "json" THEN ZeroUsage
    ELSE LET monday == today - Weekday(today)
             A == stats.dailyActivity
             T == stats.dailyModelTokens
         IN [checked |-> TRUE,
             output_tokens |->
                 SumSeq([i \in 1..Len(T) |->
                            IF T[i].date >= monday
                            THEN SumSeq(T[i].tokensByModel) ELSE 0]),
             messages |->
                 SumSeq([i \in 1..Len(A) |->
                            IF A[i].date >= monday THEN A[i].messageCount ELSE 0]),
             sessions |->
                 SumSeq([i \in 1..Len(A) |->
                            IF A[i].date >= monday THEN A[i].sessionCount ELSE 0])]

\* The error of json.loads() escapes as well
UsageRaises_unreadable(stats) == stats.kind \in {"badshape", "unreadable"}

\* main.py:259-260: result["output_tokens"] += tokens raises on a count that
\* is not a number; the exception leaves get_today_usage().  What read_text()
\* and json.loads() raise is caught at lines 242-245.
UsageRaises(stats) == stats.kind = "badshape"

\* A threshold without the guard on the budget
UsageAtOrAbove_noGuard(output_tokens, budget, warn) ==
    output_tokens * 100 >= warn * budget

\* A threshold that excludes the boundary
UsageAtOrAbove_strict(output_tokens, budget, warn) ==
    IF budget > 0 THEN output_tokens * 100 > warn * budget
    ELSE 0 > warn

\* main.py:362 and the comparison of line 373: usage_pct >= warn, with
\* usage_pct = output_tokens / budget * 100 when budget > 0, else 0
UsageAtOrAbove(output_tokens, budget, warn) ==
    IF budget > 0 THEN output_tokens * 100 >= warn * budget
    ELSE 0 >= warn

\* main.py:373
ShouldWarn(output_tokens, st, budget, warn) ==
    UsageAtOrAbove(output_tokens, budget, warn) /\ ~st.daily_tokens_warned

\* A cache with yesterday's records and, when t >= 0, today's, whose tokens
\* are spread over two models.
CacheFor(today, t) ==
    StatsContent("json",
        <<[date |-> today - 1, messageCount |-> 9, sessionCount |-> 2]>>
          \o (IF t < 0 THEN << >>
              ELSE <<[date |-> today, messageCount |-> 4, sessionCount |-> 1]>>),
        <<[date |-> today - 1, tokensByModel |-> <<DEFAULT_DAILY_BUDGET>>]>>
          \o (IF t < 0 THEN << >>
              ELSE <<[date |-> today, tokensByModel |-> <<t - (t \div 3), t \div 3>>]>>))

\* Daily output tokens the caches of the model hold for today: none, just
\* below 85% of the default budget, exactly 85%, and above.
TokenLevels == {None, 38249, 38250, 40000}

StatsInputs(today) ==
    { StatsContent("absent", << >>, << >>),
      StatsContent("unreadable", << >>, << >>),
      StatsContent("badshape", << >>, << >>) }
    \cup { CacheFor(today, t) : t \in TokenLevels }

-----------------------------------------------------------------------------
(* Initial states: what a run of the daemon finds on disk *)

SoonMs == (TOKEN_REFRESH_BUFFER_SECS - 600) * 1000
EdgeMs == (TOKEN_REFRESH_BUFFER_SECS + CHECK_INTERVAL_SECS) * 1000

\* No file; a file without the record; a record with a bad expiresAt; a token
\* that expires within the buffer; one that is exactly at the buffer at the
\* second tick; one that expires soon and has no refresh token.
InitCredFiles ==
    { NoCred("absent"),
      NoCred("null"),
      CredContent("malformed", "a0", "r0", 0),
      CredContent("rec", "a0", "r0", StartClock + SoonMs),
      CredContent("rec", "a0", "r0", StartClock + EdgeMs),
      CredContent("rec", "a0", "", StartClock + SoonMs) }

\* The failures an earlier run logged, one per tick
PriorErrors(n) ==
    [i \in 1..n |-> StartClock - (n + 1 - i) * CHECK_INTERVAL_SECS * 1000]

\* The state an earlier run of the same day saved after a warning
PriorState ==
    [last_refresh_utc |-> StartClock - DAY_MS \div 2, refresh_count |-> 3,
     last_warn_utc |-> None, daily_tokens_warned |-> TRUE,
     daily_tokens_warned_date |-> DayOf(StartClock), total_refreshes |-> 3,
     errors |-> PriorErrors(MAX_ERRORS - 1)]

InitStateFiles ==
    { StateContent("absent", DefaultState),
      StateContent("corrupt", DefaultState),
      StateContent("json", PriorState) }

NoSent == [startup |-> 0, refresh |-> 0, usage |-> 0]

\* server.py:24: the cursor before the first poll; the bridge is a program of
\* its own, and nothing of it exists where the daemon alone is looked at
NoTs == [kind |-> "None", s |-> << >>]

NoBridge ==
    /\ last_seen_ts = NoTs
    /\ inbox = {}
    /\ webhook = << >>

\* A process that has just been started, and the files it will find
InitRun ==
    /\ clock = StartClock
    /\ pc = "startup"
    /\ ticks = 0
    /\ cred_path = "None"
    /\ credFile \in InitCredFiles
    /\ stateFile \in InitStateFiles
    /\ state = DefaultState
    /\ now_utc = None
    /\ creds = NoCred("None")
    /\ data = NoData
    /\ new_creds = NoCred("None")
    /\ success = "none"
    /\ daily = NoUsage
    /\ sent = NoSent
    /\ warned_dates = << >>
    /\ observed = "nothing"
    /\ stats_cache = NoStats
    /\ weekly = NoUsage
    /\ loaded = NotLoaded
    /\ call = NoCall
    /\ ext_written = ""
    /\ NoBridge

\* main.py:38-41: no environment variable set, the defaults apply
Init ==
    /\ USAGE_WARN_PERCENT = DEFAULT_WARN_PERCENT
    /\ DAILY_OUTPUT_TOKEN_BUDGET = DEFAULT_DAILY_BUDGET
    /\ InitRun

\* main.py:38 and 41: the values int(os.environ.get(...)) can give include
\* zero (and less)
WarnPercents == {DEFAULT_WARN_PERCENT, 0}
Budgets == {DEFAULT_DAILY_BUDGET, 0}

InitConfig ==
    /\ USAGE_WARN_PERCENT \in WarnPercents
    /\ DAILY_OUTPUT_TOKEN_BUDGET \in Budgets
    /\ InitRun

-----------------------------------------------------------------------------
(* main() *)

\* The state this run loaded at its start had the latch on for the date d
LoadedLatchFor(d) ==
    loaded.daily_tokens_warned /\ loaded.daily_tokens_warned_date = d

\* The warning is sent by every tick that has no credentials path
StartupWarnings_everyTick(where, path) == IF path = "None" THEN 1 ELSE 0

\* main.py:316-319: the 'token refresh disabled' warnings sent at a point of
\* main(): one by the startup code when no credentials file was found, none
\* by a tick (lines 334-351 send nothing when cred_path is None)
StartupWarnings(where, path) ==
    IF where = "startup" /\ path = "None" THEN 1 ELSE 0

\* main.py:310-321: find the credentials file, warn once when there is none,
\* load the state
Startup ==
    /\ pc = "startup"
    /\ cred_path' = IF Exists(credFile) THEN "path" ELSE "None"
    /\ sent' = [sent EXCEPT !.startup =
                     @ + StartupWarnings("startup",
                                         IF Exists(credFile) THEN "path" ELSE "None")]
    /\ state' = load_state(stateFile)
    /\ loaded' = Loaded(stateFile)
    /\ pc' = IF LoadRaises(stateFile) THEN "exited" ELSE "tick"
    /\ UNCHANGED <<USAGE_WARN_PERCENT, DAILY_OUTPUT_TOKEN_BUDGET, clock, ticks,
                   credFile, stateFile, now_utc, creds, data, new_creds,
                   success, daily, warned_dates, observed, stats_cache, weekly,
                   call, ext_written, bridge>>

\* main.py:325-336: the snapshot of the clock, the date rollover, the read of
\* the credentials and the decision to refresh.  A record whose expiresAt is
\* not a number makes token_expires_soon() raise (TypeError).
TickBegin ==
    /\ pc = "tick"
    /\ ticks' = ticks + 1
    /\ now_utc' = clock
    /\ ext_written' = ""
    /\ state' = Rollover(state, DayOf(clock))
    /\ sent' = [sent EXCEPT !.startup = @ + StartupWarnings("tick", cred_path),
                             !.refresh = 0, !.usage = 0]
    /\ IF cred_path = "path" /\ Exists(credFile)
       THEN LET c == read_credentials(credFile)
            IN /\ creds' = c
               /\ pc' = IF ~Truthy(c) THEN "usage"
                        ELSE IF c.kind = "malformed" THEN ExceptHandler("TypeError")
                        ELSE IF token_expires_soon(c, clock) THEN "refresh"
                        ELSE "usage"
       ELSE /\ creds' = NoCred("None")
            /\ pc' = "usage"
    /\ UNCHANGED <<config, clock, credFile, stateFile, data, new_creds, success,
                   daily, warned_dates, observed, stats_cache, weekly, loaded,
                   call, bridge>>

\* main.py:338-351: what the loop does with refresh_token()'s result
AfterRefresh(ok) ==
    /\ success' = IF ok THEN "true" ELSE "false"
    /\ state' = IF ok THEN RefreshSucceeded(state, now_utc)
                ELSE RefreshFailed(state, now_utc)
    /\ sent' = IF ~ok /\ AlertOnFailure(RefreshFailed(state, now_utc))
               THEN [sent EXCEPT !.refresh = @ + 1]
               ELSE sent
    /\ pc' = "usage"

\* main.py:175-178: no refresh token on the record, refresh_token() returns
\* False without a request
RefreshNoToken ==
    /\ pc = "refresh"
    /\ ~HasRefreshToken(creds)
    /\ AfterRefresh(FALSE)
    /\ UNCHANGED <<config, clock, ticks, credFile, stateFile, now_utc, creds,
                   data, new_creds, daily, warned_dates, observed, stats_cache,
                   weekly, loaded, call, ext_written, bridge>>

\* main.py:182-204: the request fails, or its response cannot be used
RefreshRequestFails ==
    /\ pc = "refresh"
    /\ HasRefreshToken(creds)
    /\ \E resp \in Responses :
          /\ ~ResponseUsable(resp)
          /\ clock' = clock + resp.elapsed
    /\ AfterRefresh(FALSE)
    /\ UNCHANGED <<config, ticks, credFile, stateFile, now_utc, creds, data,
                   new_creds, daily, warned_dates, observed, stats_cache,
                   weekly, loaded, call, ext_written, bridge>>

\* main.py:182-216: the request succeeds and the new record is built
RefreshRequest ==
    /\ pc = "refresh"
    /\ HasRefreshToken(creds)
    /\ \E resp \in Responses :
          /\ ResponseUsable(resp)
          /\ clock' = clock + resp.elapsed
          /\ data' = resp
          /\ new_creds' = BuildNewCreds(creds, resp, clock + resp.elapsed)
    /\ pc' = "write_open"
    /\ UNCHANGED <<config, ticks, credFile, stateFile, state, now_utc, creds,
                   success, daily, sent, warned_dates, observed, stats_cache,
                   weekly, loaded, call, ext_written, bridge>>

\* main.py:218, write_text(): open(path, "w") truncates the file
WriteOpen ==
    /\ pc = "write_open"
    /\ credFile' = NoCred("empty")
    /\ pc' = "write_data"
    /\ UNCHANGED <<config, clock, ticks, stateFile, state, now_utc, creds, data,
                   new_creds, success, daily, sent, warned_dates, observed,
                   stats_cache, weekly, loaded, call, ext_written, bridge>>

\* main.py:218, write_text(): open(path, "w") raises (OSError); the except
\* clause of line 226 returns False
WriteOpenFails ==
    /\ pc = "write_open"
    /\ AfterRefresh(FALSE)
    /\ UNCHANGED <<config, clock, ticks, credFile, stateFile, now_utc, creds,
                   data, new_creds, daily, warned_dates, observed, stats_cache,
                   weekly, loaded, call, ext_written, bridge>>

\* main.py:218-224: the text is written; refresh_token() returns True unless
\* line 220 raises on the new stamp
WriteData ==
    /\ pc = "write_data"
    /\ credFile' = new_creds
    /\ AfterRefresh(~FromTimestampRaises(new_creds))
    /\ UNCHANGED <<config, clock, ticks, stateFile, now_utc, creds, data,
                   new_creds, daily, warned_dates, observed, stats_cache,
                   weekly, loaded, call, ext_written, bridge>>

\* main.py:218: the write raises (OSError, e.g. no space left) after open()
\* truncated the file; the except clause of line 226 returns False
WriteDataFails ==
    /\ pc = "write_data"
    /\ credFile' \in {NoCred("empty"), NoCred("partial")}
    /\ AfterRefresh(FALSE)
    /\ UNCHANGED <<config, clock, ticks, stateFile, now_utc, creds, data,
                   new_creds, daily, warned_dates, observed, stats_cache,
                   weekly, loaded, call, ext_written, bridge>>


\* main.py:355-357: find_stats_path() finds no file, the usage check is skipped
UsageNoStats ==
    /\ pc = "usage"
    /\ \E s \in StatsInputs(DayOf(clock)) :
          /\ s.kind = "absent"
          /\ stats_cache' = s
    /\ daily' = NoUsage
    /\ weekly' = NoUsage
    /\ pc' = "save"
    /\ UNCHANGED <<config, clock, ticks, credFile, stateFile, state, now_utc,
                   creds, data, new_creds, success, sent, warned_dates,
                   observed, loaded, call, ext_written, bridge>>

\* main.py:358: get_today_usage() raises on a cache whose counts are not
\* numbers; the rest of the tick, the save included, is skipped
UsageReadRaises ==
    /\ pc = "usage"
    /\ \E s \in StatsInputs(DayOf(clock)) :
          /\ s.kind # "absent"
          /\ UsageRaises(s)
          /\ stats_cache' = s
    /\ daily' = NoUsage
    /\ weekly' = NoUsage
    /\ pc' = ExceptHandler("TypeError")
    /\ UNCHANGED <<config, clock, ticks, credFile, stateFile, state, now_utc,
                   creds, data, new_creds, success, sent, warned_dates,
                   observed, loaded, call, ext_written, bridge>>

\* main.py:358-381: the daily and the weekly snapshot (each reads the clock
\* again for its date), the threshold and the warning
UsageCheck ==
    /\ pc = "usage"
    /\ \E s \in StatsInputs(DayOf(clock)) :
          /\ s.kind # "absent"
          /\ ~UsageRaises(s)
          /\ stats_cache' = s
          /\ LET d == get_today_usage(s, DayOf(clock))
                 warn == ShouldWarn(d.output_tokens, state,
                                    DAILY_OUTPUT_TOKEN_BUDGET, USAGE_WARN_PERCENT)
             IN /\ daily' = d
                /\ weekly' = get_weekly_usage(s, DayOf(clock))
                /\ state' = IF warn THEN [state EXCEPT !.daily_tokens_warned = TRUE]
                            ELSE state
                /\ sent' = IF warn THEN [sent EXCEPT !.usage = @ + 1] ELSE sent
                /\ warned_dates' =
                      IF warn
                      THEN Append(warned_dates,
                                  [tick |-> DayOf(now_utc), wall |-> DayOf(clock),
                                   latched |-> LoadedLatchFor(DayOf(now_utc))])
                      ELSE warned_dates
    /\ pc' = "save"
    /\ UNCHANGED <<config, clock, ticks, credFile, stateFile, now_utc, creds,
                   data, new_creds, success, observed, loaded, call,
                   ext_written, bridge>>

\* The locals of an iteration are not read after save_state(), and the next
\* iteration assigns them anew
TickLocalsDropped ==
    /\ creds' = NoCred("None")
    /\ data' = NoData
    /\ new_creds' = NoCred("None")
    /\ success' = "none"
    /\ daily' = NoUsage
    /\ stats_cache' = NoStats
    /\ weekly' = NoUsage
    /\ sent' = [sent EXCEPT !.refresh = 0, !.usage = 0]

\* main.py:384, save_state(): the whole state is written
SaveState ==
    /\ pc = "save"
    /\ stateFile' = StateContent("json", state)
    /\ pc' = "sleep"
    /\ TickLocalsDropped
    /\ UNCHANGED <<config, clock, ticks, credFile, state, now_utc, warned_dates,
                   observed, loaded, call, ext_written, bridge>>

\* main.py:384, save_state() raises (OSError): mkdir() or open() failed and
\* the file is as it was, or the write failed after open() truncated it
SaveStateFails ==
    /\ pc = "save"
    /\ stateFile' \in {stateFile, StateContent("corrupt", DefaultState)}
    /\ pc' = ExceptHandler("OSError")
    /\ TickLocalsDropped
    /\ UNCHANGED <<config, clock, ticks, credFile, state, now_utc, warned_dates,
                   observed, loaded, call, ext_written, bridge>>

\* main.py:390, time.sleep(CHECK_INTERVAL_SECS), and the next iteration
Sleep ==
    /\ pc = "sleep"
    /\ ticks < MaxTicks
    /\ clock' = clock + CHECK_INTERVAL_SECS * 1000
    /\ pc' = "tick"
    /\ TickLocalsDropped
    /\ UNCHANGED <<config, ticks, credFile, stateFile, state, now_utc,
                   warned_dates, observed, loaded, call, ext_written, bridge>>

\* Another process reads the credentials file
ReadByOther ==
    /\ Exists(credFile)
    /\ observed' = credFile.kind
    /\ UNCHANGED <<config, clock, pc, ticks, credFile, stateFile, state,
                   now_utc, creds, data, new_creds, success, daily, sent,
                   warned_dates, stats_cache, weekly, loaded, call,
                   ext_written, bridge>>

Next ==
    \/ Startup
    \/ TickBegin
    \/ RefreshNoToken
    \/ RefreshRequestFails
    \/ RefreshRequest
    \/ WriteOpen
    \/ WriteOpenFails
    \/ WriteData
    \/ WriteDataFails
    \/ UsageNoStats
    \/ UsageReadRaises
    \/ UsageCheck
    \/ SaveState
    \/ SaveStateFails
    \/ Sleep

Spec == Init /\ [][Next]_vars

\* The daemon beside a concurrent reader of the credentials file
ReaderNext == Next \/ ReadByOther

ReaderSpec == Init /\ [][ReaderNext]_vars

\* The loop is a single thread that runs whenever it can take a step
FairSpec == Spec /\ WF_vars(Next)

\* The process stops, wherever it stands, and is started again at once: its
\* memory is gone, the files are as it left them.
Restart ==
    /\ pc # "startup"
    /\ ticks < MaxTicks
    /\ pc' = "startup"
    /\ cred_path' = "None"
    /\ state' = DefaultState
    /\ now_utc' = None
    /\ creds' = NoCred("None")
    /\ data' = NoData
    /\ new_creds' = NoCred("None")
    /\ success' = "none"
    /\ daily' = NoUsage
    /\ sent' = NoSent
    /\ stats_cache' = NoStats
    /\ weekly' = NoUsage
    /\ loaded' = NotLoaded
    /\ UNCHANGED <<USAGE_WARN_PERCENT, DAILY_OUTPUT_TOKEN_BUDGET, clock, ticks,
                   credFile, stateFile, warned_dates, observed, call,
                   ext_written, bridge>>

\* A run that finds no credentials record: no file, or a file without one
InitNoRecord == Init /\ ~IsRecord(credFile)

\* The steps of the loop when there is no record to refresh
UsageNext ==
    \/ Startup
    \/ TickBegin
    \/ UsageNoStats
    \/ UsageReadRaises
    \/ UsageCheck
    \/ SaveState
    \/ SaveStateFails
    \/ Sleep

\* The daemon without a credentials record, stopped and started again any
\* number of times
RestartSpec == InitNoRecord /\ [][UsageNext \/ Restart]_vars

\* The record another process (the CLI that owns the file) puts in place of
\* the one it finds: new tokens, expiring a default lifetime from now
ExternalRecord(t) ==
    CredContent("rec", "aExt", "rExt", t + DEFAULT_EXPIRES_IN * 1000)

\* The other process replaces the credentials file, at any time
ExternalWrite ==
    /\ Exists(credFile)
    /\ credFile' = ExternalRecord(clock)
    /\ ext_written' = ExternalRecord(clock).accessToken
    /\ UNCHANGED <<config, clock, pc, ticks, stateFile, state, now_utc, creds,
                   data, new_creds, success, daily, sent, warned_dates,
                   observed, stats_cache, weekly, loaded, call, bridge>>

\* The daemon beside a process that writes the credentials file
WriterSpec == Init /\ [][Next \/ ExternalWrite]_vars

\* The daemon under each configuration of the warn percent and the budget
ConfigSpec == InitConfig /\ [][Next]_vars

-----------------------------------------------------------------------------
(* The usage aggregator on its own: get_today_usage() and get_weekly_usage()
   applied to a cache, at a date *)

\* The dates of the records a cache may hold: the Sunday before the week of
\* 1970-01-05, its Monday, Wednesday and Sunday, and the Monday after.  The
\* cache is written by another program, and a record dated after today is
\* there when that program's date runs ahead of UTC.
RecordDays == {3, 4, 6, 10, 11}

\* The dates at which the aggregator is called: Monday, Wednesday, Sunday
CallDays == {4, 6, 10}

ActivityOn(d) == [date |-> d, messageCount |-> 2 ^ d, sessionCount |-> d + 1]
TokensOn(d) == [date |-> d, tokensByModel |-> <<10 * (2 ^ d), d>>]

\* The records of the days of S, oldest first
RECURSIVE ActivityOf(_)
ActivityOf(S) ==
    IF S = {} THEN << >>
    ELSE LET d == CHOOSE x \in S : \A y \in S : x <= y
         IN <<ActivityOn(d)>> \o ActivityOf(S \ {d})

RECURSIVE TokensOf(_)
TokensOf(S) ==
    IF S = {} THEN << >>
    ELSE LET d == CHOOSE x \in S : \A y \in S : x <= y
         IN <<TokensOn(d)>> \o TokensOf(S \ {d})

AggCaches == { StatsContent("json", ActivityOf(S), TokensOf(S)) : S \in SUBSET RecordDays }

\* No daemon running: only the function under test is called
Idle ==
    /\ USAGE_WARN_PERCENT = DEFAULT_WARN_PERCENT
    /\ DAILY_OUTPUT_TOKEN_BUDGET = DEFAULT_DAILY_BUDGET
    /\ ticks = 0
    /\ cred_path = "None"
    /\ credFile = NoCred("absent")
    /\ stateFile = StateContent("absent", DefaultState)
    /\ state = DefaultState
    /\ now_utc = None
    /\ creds = NoCred("None")
    /\ data = NoData
    /\ new_creds = NoCred("None")
    /\ success = "none"
    /\ daily = NoUsage
    /\ sent = NoSent
    /\ warned_dates = << >>
    /\ observed = "nothing"
    /\ weekly = NoUsage
    /\ loaded = NotLoaded
    /\ ext_written = ""

InitAgg ==
    /\ Idle
    /\ clock \in { d * DAY_MS + DAY_MS \div 2 : d \in CallDays }
    /\ pc = "aggregate"
    /\ stats_cache \in AggCaches
    /\ call = NoCall
    /\ NoBridge

\* main.py:358-359: both snapshots of the cache, at the date of the clock
Aggregate ==
    /\ pc = "aggregate"
    /\ daily' = get_today_usage(stats_cache, DayOf(clock))
    /\ weekly' = get_weekly_usage(stats_cache, DayOf(clock))
    /\ pc' = "aggregated"
    /\ UNCHANGED <<config, clock, ticks, credFile, stateFile, state, now_utc,
                   creds, data, new_creds, success, sent, warned_dates,
                   observed, stats_cache, loaded, call, ext_written, bridge>>

AggSpec == InitAgg /\ [][Aggregate]_vars

-----------------------------------------------------------------------------
(* token_expires_soon() on its own, and in the loop *)

\* The buffers int(os.environ.get("TOKEN_REFRESH_BUFFER_SECS")) can give
Buffers == {0 - 60, 0, TOKEN_REFRESH_BUFFER_SECS}

\* Clocks on and off a whole second
ProbeClocks == {StartClock, StartClock + 500}

\* Expiries around the point where the remaining lifetime equals the buffer,
\* in ms relative to it
ProbeOffsets == {0 - 5000, 0 - 1000, 0 - 1, 0, 1, 1000}

\* expiresAt 0 is also what line 169 takes for a record without the key
ProbeCalls ==
    { [e |-> t + b * 1000 + o, now |-> t, b |-> b, result |-> "none"] :
          t \in ProbeClocks, b \in Buffers, o \in ProbeOffsets }
    \cup { [e |-> 0, now |-> t, b |-> b, result |-> "none"] :
               t \in ProbeClocks, b \in Buffers }

InitProbe ==
    /\ Idle
    /\ clock = StartClock
    /\ pc = "probe"
    /\ stats_cache = NoStats
    /\ call \in ProbeCalls
    /\ NoBridge

\* main.py:163-170 with the clock and the buffer of the call
Probe ==
    /\ pc = "probe"
    /\ call' = [call EXCEPT !.result =
                    IF ExpiresWithin(call.e, call.now, call.b) THEN "true"
                    ELSE "false"]
    /\ pc' = "probed"
    /\ UNCHANGED <<config, clock, ticks, credFile, stateFile, state, now_utc,
                   creds, data, new_creds, success, daily, sent, warned_dates,
                   observed, stats_cache, weekly, loaded, ext_written, bridge>>

\* The predicate called on its own, and the daemon that calls it in its loop
ExpirySpec == (Init \/ InitProbe) /\ [][Next \/ Probe]_vars

-----------------------------------------------------------------------------
(* Properties *)

\* The steps of a tick between its begin and its sleep
InTick == pc \in {"refresh", "write_open", "write_data", "usage", "save"}

\* C1: within one run, no two usage warnings are sent on the same UTC
\* calendar date.
C1_OneWarningPerDate ==
    \A i, j \in DOMAIN warned_dates :
        i # j => warned_dates[i].wall # warned_dates[j].wall

C3_EveryTickReachesSleep ==
    \A n \in 1..MaxTicks : <>(ticks = n /\ pc = "sleep")

\* A tick in which token_expires_soon() raised was followed by the sleep and
\* the loop stands at the next iteration.
C3_Witness ==
    /\ pc = "tick"
    /\ ticks >= 1
    /\ cred_path = "path"
    /\ credFile.kind = "malformed"

\* C4: when a refresh attempt has failed, the credentials file holds what it
\* held when the tick read it.
C4_FailedRefreshLeavesRecord ==
    success = "false" => credFile = creds

\* C5: a reader that ran beside a refresh that succeeded saw a complete
\* record, never an empty or partly written file.
C5_ReaderSeesWholeRecord ==
    success = "true" => observed \notin {"empty", "partial"}


\* The lifetime the server declared in the response of this tick, in seconds
DeclaredLifetime ==
    IF data.expires_in_kind = "absent" THEN 28800 ELSE data.expires_in

\* C6: after a successful refresh the stored refreshToken is the one the
\* response supplied, or the prior one when it supplied none, and is not
\* empty, so that a further refresh can be attempted.
C6_RefreshTokenKept ==
    success = "true" =>
        /\ credFile.kind = "rec"
        /\ credFile.refreshToken =
              (IF data.refresh_token # "" THEN data.refresh_token
               ELSE creds.refreshToken)
        /\ credFile.refreshToken # ""

\* A second successful refresh in a row (the record read was written by a
\* refresh) whose response supplied no refresh token.
C6_Witness ==
    /\ success = "true"
    /\ creds.accessToken = "aSrv"
    /\ data.refresh_token = ""
    /\ credFile.refreshToken = "r0"

\* C7 as stated: after a successful refresh the stored expiresAt is greater
\* than the prior record's and exceeds it by expires_in*1000, within the
\* latency of the call.
C7_ExceedsPriorByLifetime ==
    success = "true" =>
        /\ credFile.expiresAt > creds.expiresAt
        /\ credFile.expiresAt - creds.expiresAt
              <= (DeclaredLifetime + REFRESH_TIMEOUT_SECS) * 1000
        /\ credFile.expiresAt - creds.expiresAt
              >= (DeclaredLifetime - REFRESH_TIMEOUT_SECS) * 1000

\* C7 amended: after a successful refresh the stored expiresAt is the clock
\* at the time the record was built plus expires_in*1000 (28800 s when the
\* response has none): not before the tick's start plus the lifetime, and
\* more than (expires_in - TOKEN_REFRESH_BUFFER_SECS)*1000 above the prior
\* record's expiresAt.
C7_ExpiresAtIsClockPlusLifetime ==
    success = "true" =>
        /\ credFile.expiresAt = clock + DeclaredLifetime * 1000
        /\ credFile.expiresAt >= now_utc + DeclaredLifetime * 1000
        /\ credFile.expiresAt - creds.expiresAt
              > (DeclaredLifetime - TOKEN_REFRESH_BUFFER_SECS) * 1000

\* A successful refresh whose response declared no lifetime and took time.
C7_Witness ==
    /\ success = "true"
    /\ data.expires_in_kind = "absent"
    /\ clock > now_utc
    /\ credFile.expiresAt = clock + 28800000

\* C8: the errors list never has more than 10 entries; a refresh failure
\* appends its entry at the end and, past 10, the oldest entries go first.
C8_ErrorLogBounded ==
    /\ [](Len(state.errors) <= 10)
    /\ [][(success # "false" /\ success' = "false") =>
            LET all == Append(state.errors, now_utc)
                keep == Min(Len(all), 10)
            IN state'.errors = [i \in 1..keep |-> all[Len(all) - keep + i]]]_vars

\* The log is full and its oldest entry has been dropped by a failure of
\* this tick.
C8_Witness ==
    /\ success = "false"
    /\ Len(state.errors) = 10
    /\ state.errors[10] = now_utc
    /\ state.errors[1] = PriorErrors(9)[2]

\* C9: a tick on a date other than daily_tokens_warned_date resets the latch
\* and sets the date before the threshold is evaluated; while a tick runs the
\* date is the tick's; and a tick of a day after the run's first that finds
\* the usage at or above the threshold has a warning of its date sent.
C9_RolloverBeforeThreshold ==
    /\ [](InTick => state.daily_tokens_warned_date = DayOf(now_utc))
    /\ [][(pc = "tick" /\ pc' # "tick"
            /\ state.daily_tokens_warned_date # DayOf(clock))
          => ~state'.daily_tokens_warned]_vars
    /\ [](( /\ pc = "save"
            /\ daily.checked
            /\ daily.output_tokens * 100
                   >= USAGE_WARN_PERCENT * DAILY_OUTPUT_TOKEN_BUDGET
            /\ DayOf(now_utc) > DayOf(StartClock) )
          => \E i \in DOMAIN warned_dates :
                 warned_dates[i].tick = DayOf(now_utc))

\* A warning was sent yesterday and this tick, the first to see the threshold
\* reached today, has sent a new one.
C9_Witness ==
    /\ pc = "save"
    /\ sent.usage = 1
    /\ Len(warned_dates) = 2
    /\ warned_dates[1].tick = DayOf(now_utc) - 1
    /\ warned_dates[1].wall = DayOf(now_utc) - 1
    /\ warned_dates[2].tick = DayOf(now_utc)
    /\ warned_dates[2].wall = DayOf(now_utc)

C11_PersistedEveryTick ==
    pc = "sleep" => stateFile = StateContent("json", state)

C14_FreshStateTicksNormally ==
    [][/\ (pc = "startup" /\ stateFile.kind # "json") =>
              /\ pc' = "tick"
              /\ state' = [last_refresh_utc |-> None, refresh_count |-> 0,
                           last_warn_utc |-> None, daily_tokens_warned |-> FALSE,
                           daily_tokens_warned_date |-> None,
                           total_refreshes |-> 0, errors |-> << >>]
       /\ (loaded.from = "default" /\ ticks' = 1) =>
              /\ pc = "tick" =>
                     \/ pc' \in {"refresh", "usage"}
                     \/ creds'.kind = "malformed"
              /\ pc = "usage" =>
                     \/ pc' = "save"
                     \/ stats_cache'.kind = "badshape"
              /\ (pc = "save" /\ stateFile'.kind = "json") =>
                     /\ pc' = "sleep"
                     /\ stateFile'.data = state
                     /\ state.daily_tokens_warned_date = DayOf(now_utc)
                     /\ state.daily_tokens_warned = (sent.usage = 1)
                     /\ state.total_refreshes = (IF success = "true" THEN 1 ELSE 0)
                     /\ Len(state.errors) = (IF success = "false" THEN 1 ELSE 0)]_vars

\* A run that found a corrupt state file has refreshed the token and checked
\* the usage in its first tick, and is about to save the state over the
\* corrupt file.
C14_Witness ==
    /\ loaded.from = "default"
    /\ ~loaded.daily_tokens_warned
    /\ ticks = 1
    /\ pc = "save"
    /\ stateFile.kind = "corrupt"
    /\ success = "true"
    /\ daily.checked
    /\ state.total_refreshes = 1

\* C15: with a daily budget of 0 or less no usage warning is ever sent,
\* whatever the token count and the warn percent.
C15_NoBudgetNoWarning ==
    DAILY_OUTPUT_TOKEN_BUDGET <= 0 => (sent.usage = 0 /\ warned_dates = << >>)

\* C15 (amended): with a daily budget of 0 or less the usage percent is 0
\* whatever the token count: no usage warning is ever sent when the warn
\* percent is above 0, and when the warn percent is 0 or less a usage check
\* sends the warning exactly when the latch is off.
C15_NoBudgetWarnsOnlyAtZeroPercent ==
    /\ []((DAILY_OUTPUT_TOKEN_BUDGET <= 0 /\ USAGE_WARN_PERCENT > 0) =>
              (sent.usage = 0 /\ warned_dates = << >>))
    /\ [][(DAILY_OUTPUT_TOKEN_BUDGET <= 0 /\ pc = "usage" /\ pc' = "save"
               /\ daily'.checked) =>
             /\ (sent'.usage = 1) =
                    (USAGE_WARN_PERCENT <= 0 /\ ~state.daily_tokens_warned)
             /\ sent'.usage \in {0, 1}]_vars

\* Budget 0 at the default warn percent: a tick has found 40000 output tokens
\* for today, sent no warning and is about to save the latch still off.
C15_Witness ==
    /\ DAILY_OUTPUT_TOKEN_BUDGET = 0
    /\ USAGE_WARN_PERCENT = DEFAULT_WARN_PERCENT
    /\ pc = "save"
    /\ daily.checked
    /\ daily.output_tokens = 40000
    /\ sent.usage = 0
    /\ ~state.daily_tokens_warned

\* C16: a run that found no credentials file has sent the 'token refresh
\* disabled' warning exactly once, before its first tick, and sends it in no
\* tick; a run that found the file never sends it.
C16_StartupWarningOnce ==
    /\ pc = "startup" => sent.startup = 0
    /\ pc # "startup" => sent.startup = (IF Exists(credFile) THEN 0 ELSE 1)
    /\ pc # "startup" => (cred_path = "None") = ~Exists(credFile)

\* A run without a credentials file is past its second tick and has sent the
\* warning once.
C16_Witness ==
    /\ ~Exists(credFile)
    /\ cred_path = "None"
    /\ ticks = 2
    /\ pc = "sleep"
    /\ sent.startup = 1

\* C17: token_expires_soon is true exactly when expiresAt/1000 minus the
\* clock is below the buffer, a negative remainder included; and a tick
\* attempts a refresh exactly when it read a credentials record and the
\* predicate is true of it.
C17_RefreshExactlyWhenExpiringSoon ==
    /\ [](pc = "probed" =>
              (call.result = "true") = (call.e - call.now < call.b * 1000))
    /\ [][(pc = "tick" /\ pc' # "tick") =>
             (pc' = "refresh") =
                 (/\ cred_path = "path"
                  /\ credFile.kind = "rec"
                  /\ credFile.expiresAt - clock < TOKEN_REFRESH_BUFFER_SECS * 1000)]_vars

\* The predicate has been called on a token that expired a second ago with a
\* buffer of 0, and is true.
C17_Witness ==
    /\ pc = "probed"
    /\ call.b = 0
    /\ call.e - call.now = 0 - 1000
    /\ call.result = "true"

\* C18: however the daemon is stopped and started again, no two usage
\* warnings are sent by ticks of the same UTC date.
C18_LatchSurvivesRestart ==
    \A i, j \in 1..Len(warned_dates) :
        i < j => warned_dates[i].tick # warned_dates[j].tick

\* C18 (amended): a save that completes writes the whole state, a started
\* daemon takes its state from the state file when the file parses, and a run
\* that loaded the latch on for a date sends no usage warning in a tick of
\* that date; so a warning of date D is not repeated after a restart on D
\* when the state file holds the state a tick saved on D at or after the
\* warning.
C18_LoadedLatchSuppressesWarning ==
    /\ [](\A i \in 1..Len(warned_dates) : ~warned_dates[i].latched)
    /\ [][(pc = "startup" /\ stateFile.kind = "json") =>
             /\ state' = stateFile.data
             /\ loaded'.daily_tokens_warned = stateFile.data.daily_tokens_warned
             /\ loaded'.daily_tokens_warned_date =
                    stateFile.data.daily_tokens_warned_date]_vars
    /\ [][(pc = "save" /\ stateFile' # stateFile /\ stateFile'.kind = "json") =>
             stateFile'.data = state]_vars

\* A first run sent the warning of the date and saved its state; the daemon
\* was started again on the same date, loaded the latch, found the usage at
\* the threshold and sent nothing.
C18_Witness ==
    /\ Len(warned_dates) = 1
    /\ warned_dates[1].tick = DayOf(now_utc)
    /\ loaded.from = "file"
    /\ loaded.daily_tokens_warned
    /\ loaded.daily_tokens_warned_date = DayOf(now_utc)
    /\ state.refresh_count = 0
    /\ state.errors = << >>
    /\ pc = "save"
    /\ daily.output_tokens = 38250
    /\ sent.usage = 0

\* C19: when another process has replaced the credentials record after the
\* daemon read it in this tick, a refresh of the daemon that succeeds leaves
\* that record in the file: the daemon does not overwrite it with a record
\* derived from what it read before.
C19_NoLostUpdate ==
    (success = "true" /\ ext_written # "") =>
        (credFile.kind = "rec" /\ credFile.accessToken = ext_written)

\* C20: the tick that follows a tick whose refresh succeeded attempts no
\* token exchange.
C20_NoRefreshAfterSuccess ==
    [][(pc = "tick" /\ pc' # "tick" /\ now_utc # None
            /\ state.last_refresh_utc = now_utc) =>
        pc' # "refresh"]_vars

\* C20 (amended): the tick that follows a tick whose refresh succeeded, one
\* check interval after the record was written, attempts a token exchange
\* exactly when the written expiresAt is less than the refresh buffer ahead
\* of the clock, that is when the lifetime the record was given is below the
\* buffer plus the interval.
C20_RefreshAgainOnlyIfLifetimeShort ==
    [][(pc = "tick" /\ pc' # "tick" /\ now_utc # None
            /\ state.last_refresh_utc = now_utc) =>
        LET lifetime == credFile.expiresAt - (clock - CHECK_INTERVAL_SECS * 1000)
        IN /\ credFile.kind = "rec"
           /\ pc' \in {"refresh", "usage"}
           /\ (pc' = "refresh") =
                  (credFile.expiresAt - clock < TOKEN_REFRESH_BUFFER_SECS * 1000)
           /\ (pc' = "refresh") =
                  (lifetime < (TOKEN_REFRESH_BUFFER_SECS + CHECK_INTERVAL_SECS) * 1000)]_vars

\* The tick after a successful refresh that gave the token the default
\* lifetime has read the new record and gone on to the usage check without
\* an exchange.
C20_Witness ==
    /\ ticks = 2
    /\ pc = "usage"
    /\ success = "none"
    /\ state.last_refresh_utc = now_utc - CHECK_INTERVAL_SECS * 1000
    /\ state.total_refreshes = 1
    /\ creds.kind = "rec"
    /\ creds = credFile
    /\ creds.expiresAt = now_utc - CHECK_INTERVAL_SECS * 1000
                             + DEFAULT_EXPIRES_IN * 1000

-----------------------------------------------------------------------------
(* The SMS bridge: poll_incoming() and poll_loop() of                      *)
(* src/bridge/android-sms/server.py                                        *)

\* The most messages the inbox holds; fewer than the 10 that line 42 lists
MaxInbox == 3

\* The "received" stamp of a message is a string, and lines 54 and 59 compare
\* strings as Python does: character by character, a proper prefix being the
\* smaller.  A string is the sequence of its characters, a digit its value.
RECURSIVE StrLess(_, _)
StrLess(a, b) ==
    IF b = << >> THEN FALSE
    ELSE IF a = << >> THEN TRUE
    ELSE IF Head(a) # Head(b) THEN Head(a) < Head(b)
    ELSE StrLess(Tail(a), Tail(b))

StrLeq(a, b) == a = b \/ StrLess(a, b)

Ts(s) == [kind |-> "str", s |-> s]

\* server.py:18-22: one sender is allowed; the empty list allows every sender
ALLOWED_IDS == <<"alice">>

\* server.py:66
Allowed(sender) ==
    ~(ALLOWED_IDS # << >>
        /\ \A i \in DOMAIN ALLOWED_IDS : ALLOWED_IDS[i] # sender)

\* The messages that can arrive: two with the same stamp, one from a sender
\* that is not allowed, one without the key "received" (line 58 reads "").
\* The id tells messages apart; poll_incoming() does not read it.
Sms(id, received, number) ==
    [id |-> id, received |-> received, number |-> number]

SmsMessages ==
    { Sms(1, <<0, 8>>, "alice"), Sms(2, <<0, 9>>, "mallory"),
      Sms(3, <<0, 9>>, "alice"), Sms(4, <<1, 0>>, "alice"),
      Sms(5, << >>, "alice") }

\* What lines 41-47 can give: the messages of the inbox in the order the tool
\* printed them, which the program does not control; nothing usable (the tool
\* failed, timed out or printed no JSON: lines 48-50); or JSON that is an
\* object and not a list
Orderings(S) ==
    { q \in [1..Cardinality(S) -> S] :
          \A i, j \in 1..Cardinality(S) : i # j => q[i] # q[j] }

Listings(box) ==
    { [kind |-> "list", messages |-> q] : q \in Orderings(box) }
    \cup { [kind |-> "error", messages |-> << >>],
           [kind |-> "object", messages |-> << >>] }

Reverse(q) == [i \in 1..Len(q) |-> q[Len(q) + 1 - i]]

PollResult(cursor, posts, raised) ==
    [last_seen_ts |-> cursor, posts |-> posts, raised |-> raised]

AlreadySeen_older(ts, cursor) == cursor.kind # "None" /\ StrLess(ts, cursor.s)

\* server.py:59
AlreadySeen(ts, cursor) == cursor.kind # "None" /\ StrLeq(ts, cursor.s)

\* server.py:57-86 over the messages still to visit.  urlopen() raises at the
\* k-th request of the poll something that is not a URLError (a read timeout,
\* a reset connection), which nothing catches; before that its requests fail
\* with URLError, which line 85 catches, when u holds and succeed otherwise.
RECURSIVE Forward(_, _, _, _, _)
Forward(msgs, cursor, posts, k, u) ==
    IF msgs = << >> THEN PollResult(cursor, posts, FALSE)
    ELSE LET msg == Head(msgs)
             ts == msg.received
             post(result) == [id |-> msg.id, received |-> ts,
                              sender |-> msg.number, result |-> result]
         IN IF AlreadySeen(ts, cursor)
                THEN Forward(Tail(msgs), cursor, posts, k, u)
            ELSE IF ~Allowed(msg.number)
                THEN Forward(Tail(msgs), Ts(ts), posts, k, u)
            ELSE IF k = 1
                THEN PollResult(Ts(ts), Append(posts, post("raised")), TRUE)
            ELSE Forward(Tail(msgs), Ts(ts),
                         Append(posts, post(IF u THEN "URLError" ELSE "ok")),
                         IF k = 0 THEN 0 ELSE k - 1, u)

\* server.py:36-86.  An object is truthy and has no key 0 (line 54), and its
\* keys are strings without get() (line 58): either way the call raises.
Poll(listing, cursor, k, u) ==
    IF listing.kind = "error" THEN PollResult(cursor, << >>, FALSE)
    ELSE IF listing.kind = "object" THEN PollResult(cursor, << >>, TRUE)
    ELSE IF cursor.kind = "None" /\ listing.messages # << >>
        THEN PollResult(Ts(listing.messages[1].received), << >>, FALSE)
    ELSE Forward(Reverse(listing.messages), cursor, << >>, k, u)

\* The bridge has been started: the poll thread is about to poll
InitBridge ==
    /\ Idle
    /\ clock = StartClock
    /\ pc = "poll_loop"
    /\ stats_cache = NoStats
    /\ call = NoCall
    /\ NoBridge

\* A message is received by the device
Arrive ==
    /\ Cardinality(inbox) < MaxInbox
    /\ \E m \in SmsMessages \ inbox : inbox' = inbox \cup {m}
    /\ UNCHANGED <<config, clock, pc, ticks, credFile, stateFile, state,
                   now_utc, creds, data, new_creds, success, daily, sent,
                   warned_dates, observed, stats_cache, weekly, loaded, call,
                   ext_written, last_seen_ts, webhook>>

\* server.py:89-92: one iteration of poll_loop(); an exception that leaves
\* poll_incoming() ends the thread
poll_incoming ==
    /\ pc = "poll_loop"
    /\ \E listing \in Listings(inbox), k \in 0..Cardinality(inbox),
          u \in BOOLEAN :
           LET r == Poll(listing, last_seen_ts, k, u)
           IN /\ last_seen_ts' = r.last_seen_ts
              /\ webhook' = webhook \o r.posts
              /\ pc' = IF r.raised THEN "exited" ELSE "poll_loop"
    /\ UNCHANGED <<config, clock, ticks, credFile, stateFile, state, now_utc,
                   creds, data, new_creds, success, daily, sent, warned_dates,
                   observed, stats_cache, weekly, loaded, call, ext_written,
                   inbox>>

BridgeSpec == InitBridge /\ [][Arrive \/ poll_incoming]_vars

\* C21: in the SMS bridge, across any sequence of polls, the cursor
\* last_seen_ts never decreases once it is set; no message of the inbox is
\* forwarded to the webhook more than once; a poll forwards only messages
\* whose received stamp is strictly greater than the cursor, each greater than
\* the one forwarded before it; and no poll forwards anything while the cursor
\* is not set, so the first poll that returns messages forwards none of them.
C21_CursorNeverDecreasesNoneForwardedTwice ==
    /\ [](\A i, j \in DOMAIN webhook :
              i # j => webhook[i].id # webhook[j].id)
    /\ [][/\ last_seen_ts.kind # "None" =>
                /\ last_seen_ts'.kind # "None"
                /\ ~StrLess(last_seen_ts'.s, last_seen_ts.s)
          /\ \A i \in (Len(webhook) + 1)..Len(webhook') :
                /\ last_seen_ts.kind # "None"
                /\ StrLess(last_seen_ts.s, webhook'[i].received)
                /\ i > Len(webhook) + 1 =>
                       StrLess(webhook'[i - 1].received, webhook'[i].received)
          /\ last_seen_ts.kind = "None" => webhook' = webhook]_vars

\* The first poll that returned messages set the cursor to "08", the stamp of
\* the message listed first, and forwarded nothing; a later poll forwarded the
\* two newer messages, oldest first, one request failing with URLError; the
\* three messages are still in the inbox and nothing was forwarded twice.
C21_Witness ==
    /\ pc = "poll_loop"
    /\ Len(webhook) = 2
    /\ webhook[1].id = 3 /\ webhook[1].result = "URLError"
    /\ webhook[2].id = 4 /\ webhook[2].result = "URLError"
    /\ last_seen_ts = Ts(<<1, 0>>)
    /\ inbox = { Sms(1, <<0, 8>>, "alice"), Sms(3, <<0, 9>>, "alice"),
                 Sms(4, <<1, 0>>, "alice") }

====
